---- MODULE Spec2Model ----
(***************************************************************************)
(* State-machine model of spotify_library_builder: the command line entry  *)
(* point (cli.main / cli.build_library), the playlist adapter              *)
(* (SpotifyClient), the match resolver (YouTubeClient.search_first_video),  *)
(* the fetch-and-encode adapter (ConverterClient.convert_and_download) and  *)
(* the filename helpers (utils.slugify, utils.unique_path).                 *)
(*                                                                         *)
(* Text is a sequence of one-character strings; a file of the session       *)
(* directory is named by the text of its file name.                         *)
(***************************************************************************)
EXTENDS Integers, Sequences, FiniteSets, TLC

\* ------------------------------------------------------------------ bounds
\* Most tracks one run fetches, over all pages.
MaxTracks == 2
\* Most pages the playlist service hands out for one playlist.
MaxPages == 2

\* ---------------------------------------------------------------- constants
\* utils.slugify's default max_length.
SlugMaxLength == 200

\* An Optional value: NoneVal is Python's None, Some(v) a value that is present.
NoneVal == <<>>
Some(v) == <<v>>

\* --------------------------------------------------------------------- text
Whitespace == {" ", "\t"}

\* The characters utils._invalid_chars_re keeps: [A-Za-z0-9._-].
SafeChars ==
    {"A", "B", "C", "D", "E", "F", "G", "H", "I", "J", "K", "L", "M",
     "N", "O", "P", "Q", "R", "S", "T", "U", "V", "W", "X", "Y", "Z",
     "a", "b", "c", "d", "e", "f", "g", "h", "i", "j", "k", "l", "m",
     "n", "o", "p", "q", "r", "s", "t", "u", "v", "w", "x", "y", "z",
     "0", "1", "2", "3", "4", "5", "6", "7", "8", "9", ".", "_", "-"}

\* str.lower, one character.
LowerChar(c) ==
    CASE c = "A" -> "a"
      [] c = "B" -> "b"
      [] OTHER -> c

\* str.lower.
Lower(s) == [k \in DOMAIN s |-> LowerChar(s[k])]

RECURSIVE LStrip(_)
\* str.lstrip.
LStrip(s) ==
    IF s # <<>> /\ Head(s) \in Whitespace THEN LStrip(Tail(s)) ELSE s

RECURSIVE RStrip(_)
\* str.rstrip.
RStrip(s) ==
    IF s # <<>> /\ s[Len(s)] \in Whitespace
    THEN RStrip(SubSeq(s, 1, Len(s) - 1))
    ELSE s

\* str.strip.
Strip(s) == LStrip(RStrip(s))

RECURSIVE JoinSpace(_)
\* ' '.join(parts).
JoinSpace(parts) ==
    IF parts = <<>> THEN <<>>
    ELSE IF Len(parts) = 1 THEN parts[1]
    ELSE parts[1] \o <<" ">> \o JoinSpace(Tail(parts))

RECURSIVE KeepSafe(_)
\* _invalid_chars_re.sub("", value): every run of characters outside SafeChars is removed.
KeepSafe(s) ==
    IF s = <<>> THEN <<>>
    ELSE IF Head(s) \in SafeChars THEN <<Head(s)>> \o KeepSafe(Tail(s))
    ELSE KeepSafe(Tail(s))

\* value.replace(" ", "-"): each space character becomes one hyphen.
SpacesToHyphens(s) == [k \in DOMAIN s |-> IF s[k] = " " THEN "-" ELSE s[k]]

\* value[:n].
Truncate(s, n) == SubSeq(s, 1, IF Len(s) < n THEN Len(s) ELSE n)

\* utils.slugify(value, max_length=max_length).
slugify(value, max_length) ==
    Truncate(KeepSafe(SpacesToHyphens(Strip(value))), max_length)

Digits == <<"0", "1", "2", "3", "4", "5", "6", "7", "8", "9">>

RECURSIVE IntToText(_)
\* str(n) of a natural number.
IntToText(n) ==
    IF n < 10 THEN <<Digits[n + 1]>>
    ELSE IntToText(n \div 10) \o <<Digits[(n % 10) + 1]>>

Mp3Ext == <<".", "m", "p", "3">>
\* The suffix convert_and_download hands to with_suffix: ".%(ext)s".
ExtTemplate == <<".", "%", "(", "e", "x", "t", ")", "s">>

\* ---------------------------------------------------------------- pathlib
\* The 1-based place of the last "." of name, 0 when it has none (str.rfind).
LastDot(name) ==
    LET dots == {k \in DOMAIN name : name[k] = "."}
    IN  IF dots = {} THEN 0 ELSE CHOOSE k \in dots : \A j \in dots : j <= k

\* PurePath.suffix: the text from the last dot on, unless that dot starts or
\* ends the name.
PathSuffix(name) ==
    IF LastDot(name) > 1 /\ LastDot(name) < Len(name)
    THEN SubSeq(name, LastDot(name), Len(name))
    ELSE <<>>

\* PurePath.with_suffix(suffix): the suffix replaced, or appended to a name
\* that has none.
WithSuffix(name, suffix) ==
    IF PathSuffix(name) = <<>> THEN name \o suffix
    ELSE SubSeq(name, 1, Len(name) - Len(PathSuffix(name))) \o suffix

\* A loop that looks at the directory once only.
UniqueLoopOnce(existing, base_name, extension, candidate, counter) ==
    IF candidate \in existing
    THEN base_name \o <<"-">> \o <<Digits[counter + 1]>> \o extension
    ELSE candidate

RECURSIVE UniqueLoop(_, _, _, _, _)
\* The while loop of utils.unique_path over the existing files of the directory.
UniqueLoop(existing, base_name, extension, candidate, counter) ==
    IF candidate \in existing
    THEN UniqueLoop(existing, base_name, extension,
                    base_name \o <<"-">> \o IntToText(counter) \o extension,
                    counter + 1)
    ELSE candidate

\* utils.unique_path(directory, base_name, extension); existing are the names
\* that exist in directory.
unique_path(existing, base_name, extension) ==
    UniqueLoop(existing, base_name, extension, base_name \o extension, 1)

\* The "%(ext)s" field of a yt-dlp output template.
ExtField == <<"%", "(", "e", "x", "t", ")", "s">>

RECURSIVE RenderTemplate(_)
\* yt-dlp's output file for outtmpl after FFmpegExtractAudio with
\* preferredcodec mp3: every %(ext)s field reads "mp3".
RenderTemplate(outtmpl) ==
    IF Len(outtmpl) < Len(ExtField) THEN outtmpl
    ELSE IF SubSeq(outtmpl, 1, Len(ExtField)) = ExtField
    THEN <<"m", "p", "3">> \o RenderTemplate(SubSeq(outtmpl, Len(ExtField) + 1, Len(outtmpl)))
    ELSE <<Head(outtmpl)>> \o RenderTemplate(Tail(outtmpl))

\* --------------------------------------------------------------- datetime
\* A datetime: ts is its instant, aware whether it carries a UTC offset.
\* datetime.fromtimestamp(0): the epoch as a naive (offset-less) datetime.
Epoch == [ts |-> 0, aware |-> FALSE]

\* The text of a timestamp: form "absent" (no value), "Z" (ISO 8601 ending in
\* Z), "plain" (ISO 8601 without an offset) or "garbage" (not ISO 8601).
Timestamp(form, ts) == [form |-> form, ts |-> ts]

\* datetime.fromisoformat of the text, with the Z suffix replaced by +00:00:
\* FALSE for ok stands for ValueError.
FromIsoFormat(raw) ==
    CASE raw.form = "Z" -> [ok |-> TRUE, value |-> [ts |-> raw.ts, aware |-> TRUE]]
      [] raw.form = "plain" -> [ok |-> TRUE, value |-> [ts |-> raw.ts, aware |-> FALSE]]
      [] OTHER -> [ok |-> FALSE, value |-> Epoch]

\* datetime.__gt__ is defined between two aware or two naive datetimes; for any
\* other pair it raises TypeError.
Comparable(a, b) == a.aware = b.aware
DatetimeGt(a, b) == a.ts > b.ts

\* cli._parse_datetime: the parsed threshold, or ArgumentTypeError (ok FALSE).
ParseDatetime(raw) == FromIsoFormat(raw)

\* ------------------------------------------------------------------ tracks
\* spotify_client.Track.
Track(title, artists, added_at) ==
    [title |-> title, artists |-> artists, added_at |-> added_at]

\* Track.search_query.
search_query(t) == Strip(t.title \o <<" ">> \o JoinSpace(t.artists))

UnknownTitle == <<"U", "n", "k", "n", "o", "w", "n", " ", "T", "i", "t", "l", "e">>

\* The added_at of one playlist item, lines 88-99 of get_playlist_tracks.
ParseAddedAt(raw) ==
    IF raw.form = "absent" THEN Epoch
    ELSE IF FromIsoFormat(raw).ok THEN FromIsoFormat(raw).value
    ELSE Epoch

\* A playlist item of the service: track is "object", "null" (the key holds
\* null) or "missing" (no such key); is_local, id, name and artists are the
\* track object's fields, each Optional.
Item(track, is_local, id, name, artists, added_at) ==
    [track |-> track, is_local |-> is_local, id |-> id, name |-> name,
     artists |-> artists, added_at |-> added_at]

\* track_info = item.get("track", {}): a missing key reads as an empty object.
\* The item is skipped when it is local or has no id.
ItemSkipped(item) ==
    \/ item.track = "missing"
    \/ item.is_local
    \/ item.id = NoneVal

\* track_info.get on a null track raises AttributeError.
ItemRaises(item) == item.track = "null"

\* The Track of an item that is kept.
NormalizeItem(item) ==
    Track(IF item.name = NoneVal THEN UnknownTitle ELSE item.name[1],
          IF item.artists = NoneVal THEN <<>> ELSE item.artists[1],
          ParseAddedAt(item.added_at))

RECURSIVE NormalizeItems(_)
\* The for loop over payload["items"]: the tracks appended, in order.
NormalizeItems(items) ==
    IF items = <<>> THEN <<>>
    ELSE IF ItemSkipped(Head(items)) THEN NormalizeItems(Tail(items))
    ELSE <<NormalizeItem(Head(items))>> \o NormalizeItems(Tail(items))

\* ----------------------------------------------------------------- filters
\* Truth value of an Optional[datetime]: every datetime is true.
DateTruthy(opt) == opt # NoneVal
\* Truth value of an Optional[str]: None and the empty string are false.
NameTruthy(opt) == opt # NoneVal /\ opt[1] # <<>>

\* Whether the list comprehension of the time filter raises TypeError.
TimeFilterRaises(trks, T) == \E k \in DOMAIN trks : ~Comparable(trks[k].added_at, T)

RECURSIVE TimeFilter(_, _)
\* [t for t in tracks if t.added_at > date_added_threshold]
TimeFilter(trks, T) ==
    IF trks = <<>> THEN <<>>
    ELSE IF DatetimeGt(Head(trks).added_at, T)
    THEN <<Head(trks)>> \o TimeFilter(Tail(trks), T)
    ELSE TimeFilter(Tail(trks), T)

\* next(i for i, t in enumerate(tracks) if t.title.lower() == name.lower()),
\* 1-based; 0 stands for None.
ThresholdIndex(trks, name) ==
    LET hits == {k \in DOMAIN trks : Lower(trks[k].title) = Lower(name)}
    IN  IF hits = {} THEN 0 ELSE CHOOSE k \in hits : \A j \in hits : k <= j

\* tracks[threshold_index + 1:]
TitleFilter(trks, name) ==
    SubSeq(trks, ThresholdIndex(trks, name) + 1, Len(trks))

\* Lines 54-79 of build_library: the error raised ("" for none), the tracks
\* left, and the filters that were applied.
FilterSection(trks, date_opt, name_opt) ==
    LET timed == IF DateTruthy(date_opt) THEN TimeFilter(trks, date_opt[1]) ELSE trks
    IN  IF DateTruthy(date_opt) /\ TimeFilterRaises(trks, date_opt[1])
        THEN [error |-> "TypeError", tracks |-> trks, applied |-> {}]
        ELSE IF ~NameTruthy(name_opt)
        THEN [error |-> "", tracks |-> timed,
              applied |-> IF DateTruthy(date_opt) THEN {"time"} ELSE {}]
        ELSE IF ThresholdIndex(timed, name_opt[1]) = 0
        THEN [error |-> "RuntimeError: song not found", tracks |-> timed,
              applied |-> IF DateTruthy(date_opt) THEN {"time"} ELSE {}]
        ELSE [error |-> "", tracks |-> TitleFilter(timed, name_opt[1]),
              applied |-> (IF DateTruthy(date_opt) THEN {"time"} ELSE {}) \cup {"title"}]

\* ---------------------------------------------------------- match resolver
Lyrics == <<" ", "l", "y", "r", "i", "c", "s">>

\* search_plan of search_first_video: (query text, hd_only), in order.
SearchPlan(query) ==
    << [q |-> query \o Lyrics, hd |-> TRUE],
       [q |-> query \o Lyrics, hd |-> FALSE],
       [q |-> query, hd |-> TRUE],
       [q |-> query, hd |-> FALSE] >>

\* A response of the search endpoint: status "error" (the request fails,
\* raise_for_status raises, or the first item has no "id") or "ok" with its
\* items; an item holds the Optional videoId of its id object.
SearchResponse(status, items) == [status |-> status, items |-> items]

\* An _attempt that swallows a failed request and reports no result.
AttemptResultSwallows(resp) ==
    IF resp.status = "error" \/ resp.items = <<>>
    THEN [raised |-> FALSE, video_id |-> NoneVal]
    ELSE [raised |-> FALSE, video_id |-> resp.items[1].videoId]

\* _attempt's outcome for a response: it raises, or returns the Optional video
\* id (None for no items, items[0]["id"].get("videoId") otherwise).
AttemptResult(resp) ==
    IF resp.status = "error" THEN [raised |-> TRUE, video_id |-> NoneVal]
    ELSE IF resp.items = <<>> THEN [raised |-> FALSE, video_id |-> NoneVal]
    ELSE [raised |-> FALSE, video_id |-> resp.items[1].videoId]

\* "if video_id:" of search_first_video: None and the empty string are false.
VideoIdTruthy(video_id) == video_id # NoneVal /\ video_id[1] # ""

\* f"https://www.youtube.com/watch?v={video_id}"
WatchUrl(video_id) == <<"https://www.youtube.com/watch?v=", video_id>>

\* -------------------------------------------------------- fetch and encode
\* base_name of build_library, line 93.
BaseName(t) ==
    IF t.artists # <<>> THEN t.title \o <<"-">> \o t.artists[1] ELSE t.title

DefaultBase == <<"t", "r", "a", "c", "k">>

\* final_mp3_path of convert_and_download: slugify(filename_base or "track"),
\* then unique_path in the output directory.
FinalMp3Path(existing, filename_base) ==
    unique_path(existing,
                slugify(IF filename_base = <<>> THEN DefaultBase ELSE filename_base,
                        SlugMaxLength),
                Mp3Ext)

\* outtmpl of convert_and_download: final_mp3_path.with_suffix(".%(ext)s").
OutTemplate(final_mp3_path) == WithSuffix(final_mp3_path, ExtTemplate)

\* The file yt-dlp writes for a final_mp3_path.
WrittenFile(final_mp3_path) == RenderTemplate(OutTemplate(final_mp3_path))

\* ------------------------------------------------------------------ inputs
\* Track titles the service holds: empty, "A", and one without a safe character.
Titles == {<<>>, <<"A">>, <<"?">>}
ArtistLists == {<<>>, << <<"b">> >>}
AddedAtTexts == {Timestamp("absent", 0), Timestamp("Z", 1)}

\* Playlist items that normalise to a track.
PlayableItems ==
    {Item("object", FALSE, Some("id"), Some(title), Some(artists), added_at) :
        title \in Titles, artists \in ArtistLists, added_at \in AddedAtTexts}

\* Items get_playlist_tracks drops: a local file, a track without id, an item
\* without a track object.
DroppedItems ==
    {Item("object", TRUE, Some("id"), Some(<<"A">>), Some(<<>>), Timestamp("Z", 1)),
     Item("object", FALSE, NoneVal, Some(<<"A">>), Some(<<>>), Timestamp("Z", 1)),
     Item("missing", FALSE, NoneVal, NoneVal, NoneVal, Timestamp("Z", 1))}

\* An item whose track is null.
NullItems == {Item("null", FALSE, NoneVal, NoneVal, NoneVal, Timestamp("Z", 1))}

ItemUniverse == PlayableItems \cup DroppedItems \cup NullItems

\* Sequences over S of length at most n.
RECURSIVE SeqsUpTo(_, _)
SeqsUpTo(S, n) ==
    IF n = 0 THEN {<<>>}
    ELSE LET shorter == SeqsUpTo(S, n - 1)
         IN  shorter \cup {Append(s, x) : s \in {t \in shorter : Len(t) = n - 1}, x \in S}

\* --date-added-threshold values typed on the command line.
DateArgs ==
    {Timestamp("Z", 0), Timestamp("Z", 1), Timestamp("plain", 0), Timestamp("garbage", 0)}
\* --song-name-threshold values typed on the command line.
NameArgs == {<<>>, <<"a">>, <<"B">>}

\* Responses of the video search endpoint to one request.
SearchResponses ==
    {SearchResponse("error", <<>>),
     SearchResponse("ok", <<>>),
     SearchResponse("ok", <<[videoId |-> NoneVal]>>),
     SearchResponse("ok", <<[videoId |-> Some("vid")]>>)}

\* No response yet.
NoResponse == SearchResponse("none", <<>>)

\* What the loop did with a track: how search_first_video ended ("none"
\* before any track, "pending", "match", "nomatch", "error"), how often
\* convert_and_download was called and how it ended ("none" when it was not
\* called, "ok", "error").
LogEntry(resolver, converts, fetch) ==
    [resolver |-> resolver, converts |-> converts, fetch |-> fetch]

\* Whether a response holds a video id that can be played.
Usable(r) ==
    /\ r.status = "ok"
    /\ r.items # <<>>
    /\ r.items[1].videoId \notin {NoneVal, Some("")}

\* ------------------------------------------------------------------- state
VARIABLES
    pc,                     \* where the run is
    config,                 \* credentials present: [spotify, youtube]
    args,                   \* the parsed command line: [date, name], each Optional
    date_added_threshold,   \* build_library's parameter
    song_name_threshold,    \* build_library's parameter
    access_token,           \* SpotifyClient._access_token
    pages,                  \* pages fetched so far
    tracks,                 \* tracks of get_playlist_tracks, then of build_library
    applied,                \* filters build_library applied
    i,                      \* position of the for loop in tracks
    attempt,                \* position of search_first_video in its search_plan
    calls,                  \* search requests of the current search_first_video call
    last_resp,              \* response to the last of them
    yt_url,                 \* result of the current search_first_video call
    files,                  \* file names that exist in session_dir
    attempted,              \* positions in tracks the loop has taken, in order
    current,                \* what the loop did with the track it took last
    returned,               \* successful convert_and_download calls
    faults,                 \* failures the services answered with while fetching
    error,                  \* the exception that ended the run, "" for none
    served,                 \* items of the pages answered to get_playlist_tracks,
                            \* kept until build_library filters its result
    call                    \* the last call of a helper of utils, with its result

vars ==
    <<pc, config, args, date_added_threshold, song_name_threshold, access_token,
      pages, tracks, applied, i, attempt, calls, last_resp, yt_url, files, attempted,
      current, returned, faults, error, served, call>>

\* A call of a helper of utils and what it returned.
Call(fn, value, extension, max_length, result) ==
    [fn |-> fn, value |-> value, extension |-> extension,
     max_length |-> max_length, result |-> result]

NoCall == Call("none", <<>>, <<>>, 0, <<>>)

Init ==
    /\ pc = "start"
    /\ config \in [spotify : BOOLEAN, youtube : BOOLEAN]
    /\ args = [date |-> NoneVal, name |-> NoneVal]
    /\ date_added_threshold = NoneVal
    /\ song_name_threshold = NoneVal
    /\ access_token = NoneVal
    /\ pages = 0
    /\ tracks = <<>>
    /\ applied = {}
    /\ i = 0
    /\ attempt = 0
    /\ calls = <<>>
    /\ last_resp = NoResponse
    /\ yt_url = NoneVal
    /\ files = {}
    /\ attempted = <<>>
    /\ current = LogEntry("none", 0, "none")
    /\ returned = <<>>
    /\ faults = {}
    /\ error = ""
    /\ served = <<>>
    /\ call = NoCall

\* The run ends with an exception leaving build_library (or main).
Fail(where, exc) ==
    /\ pc' = where
    /\ error' = exc

\* ---------------------------------------------------------------- cli.main
\* _parse_args without its mutually exclusive group: only a date that does
\* not parse is rejected.
ParseArgsRejectsBadDateOnly(date_arg, name_arg) ==
    date_arg # NoneVal /\ ~ParseDatetime(date_arg[1]).ok

\* _parse_args: the mutually exclusive group rejects a command line that
\* gives both options; _parse_datetime rejects a date that is not ISO 8601.
ParseArgsRejects(date_arg, name_arg) ==
    \/ date_arg # NoneVal /\ name_arg # NoneVal
    \/ date_arg # NoneVal /\ ~ParseDatetime(date_arg[1]).ok

\* main: parse the command line and enter build_library, which constructs
\* its three clients; YouTubeClient() raises without an API key.
Main ==
    /\ pc = "start"
    /\ \E date_arg \in {NoneVal} \cup {Some(d) : d \in DateArgs},
          name_arg \in {NoneVal} \cup {Some(n) : n \in NameArgs} :
         /\ args' = [date |-> date_arg, name |-> name_arg]
         /\ IF ParseArgsRejects(date_arg, name_arg)
            THEN /\ Fail("usage_error", "SystemExit")
                 /\ UNCHANGED <<date_added_threshold, song_name_threshold>>
            ELSE /\ date_added_threshold' =
                        IF date_arg = NoneVal THEN NoneVal
                        ELSE Some(ParseDatetime(date_arg[1]).value)
                 /\ song_name_threshold' = name_arg
                 /\ IF config.youtube
                    THEN pc' = "auth" /\ error' = error
                    ELSE Fail("failed", "RuntimeError: YouTube API key")
    /\ UNCHANGED <<call, served, config, access_token, pages, tracks, applied, i, attempt, calls,
                   last_resp, yt_url, files, attempted, current, returned, faults>>

\* ------------------------------------------------------------ SpotifyClient
\* Responses of the token endpoint: the request fails, or it answers with an
\* Optional access_token.
TokenResponses ==
    {[status |-> "error", token |-> NoneVal],
     [status |-> "ok", token |-> NoneVal],
     [status |-> "ok", token |-> Some("token")]}

\* A request whose status is never looked at.
RaisesForStatusNever(resp) == FALSE

\* resp.raise_for_status(): whether it raises for a response.
RaisesForStatus(resp) == resp.status = "error"

\* _get_access_token, called first by get_playlist_tracks.
GetAccessToken ==
    /\ pc = "auth"
    /\ IF ~config.spotify
       THEN /\ Fail("failed", "RuntimeError: Spotify credentials")
            /\ faults' = faults \cup {"credentials"}
            /\ UNCHANGED access_token
       ELSE \E resp \in TokenResponses :
              /\ faults' = faults \cup
                     (IF resp.status = "error" \/ resp.token = NoneVal
                      THEN {"authentication"} ELSE {})
              /\ IF RaisesForStatus(resp)
                 THEN /\ Fail("failed", "HTTPError")
                      /\ UNCHANGED access_token
                 ELSE /\ access_token' = resp.token
                      /\ IF resp.token = NoneVal
                         THEN Fail("failed", "RuntimeError: no access token")
                         ELSE pc' = "fetching" /\ error' = error
    /\ UNCHANGED <<call, served, config, args, date_added_threshold, song_name_threshold, pages,
                   tracks, applied, i, attempt, calls, last_resp, yt_url, files, attempted,
                   current, returned>>

\* Responses of the tracks endpoint to the request for the next page: the
\* request fails, or it answers with items and a next pointer.
PageResponses ==
    {[status |-> "error", items |-> <<>>, next |-> FALSE]}
    \cup {[status |-> "ok", items |-> items, next |-> next] :
            items \in SeqsUpTo(ItemUniverse, MaxTracks - Len(tracks)),
            next \in {n \in BOOLEAN : n => pages + 1 < MaxPages}}

\* The items of a page that the for loop reaches: all of them, or those up to
\* the first one that raises.
ItemsReached(items) ==
    LET bad == {k \in DOMAIN items : ItemRaises(items[k])}
    IN  IF bad = {} THEN items
        ELSE SubSeq(items, 1, (CHOOSE k \in bad : \A j \in bad : k <= j) - 1)

\* One turn of the while loop of get_playlist_tracks: request a page, append
\* its tracks, follow the next pointer.
FetchPage ==
    /\ pc = "fetching"
    /\ \E resp \in PageResponses :
         /\ faults' = faults \cup (IF resp.status = "error" THEN {"page"} ELSE {})
         /\ IF RaisesForStatus(resp)
            THEN /\ Fail("failed", "HTTPError")
                 /\ UNCHANGED <<pages, tracks, served>>
            ELSE /\ pages' = pages + 1
                 /\ served' = served \o resp.items
                 /\ tracks' = tracks \o NormalizeItems(ItemsReached(resp.items))
                 /\ IF \E k \in DOMAIN resp.items : ItemRaises(resp.items[k])
                    THEN Fail("failed", "AttributeError")
                    ELSE /\ pc' = IF resp.next THEN "fetching" ELSE "filtering"
                         /\ error' = error
    /\ UNCHANGED <<call, config, args, date_added_threshold, song_name_threshold,
                   access_token, applied, i, attempt, calls, last_resp, yt_url, files,
                   attempted, current, returned>>

\* ------------------------------------------------------------ build_library
\* Lines 54-79: the optional filters.
FilterTracks ==
    /\ pc = "filtering"
    /\ LET r == FilterSection(tracks, date_added_threshold, song_name_threshold)
       IN  IF r.error # ""
           THEN /\ Fail("failed", r.error)
                /\ UNCHANGED <<tracks, applied>>
           ELSE /\ tracks' = r.tracks
                /\ applied' = r.applied
                /\ pc' = "loop"
                /\ error' = error
    /\ served' = <<>>
    /\ UNCHANGED <<call, config, args, date_added_threshold, song_name_threshold,
                   access_token, pages, i, attempt, calls, last_resp, yt_url, files,
                   attempted, current, returned, faults>>

\* The for statement of line 81: take the next track, or finish.
LoopNext ==
    /\ pc = "loop"
    /\ IF i = Len(tracks)
       THEN /\ pc' = "done"
            /\ UNCHANGED <<i, attempt, calls, last_resp, yt_url, attempted, current>>
       ELSE /\ i' = i + 1
            /\ attempted' = Append(attempted, i + 1)
            /\ current' = LogEntry("pending", 0, "none")
            /\ attempt' = 1
            /\ calls' = <<>>
            /\ last_resp' = NoResponse
            /\ yt_url' = NoneVal
            /\ pc' = "search"
    /\ UNCHANGED <<call, served, config, args, date_added_threshold, song_name_threshold,
                   access_token, pages, tracks, applied, files, returned, faults, error>>

\* Where build_library goes on when search_first_video raised (lines 88-90).
AfterSearchRaised == "loop"

\* A loop that lacks the continue of line 87 and falls through to the download.
AfterNoMatchFallsThrough == "convert"

\* Where build_library goes on when search_first_video returned None (lines 85-87).
AfterNoMatch == "loop"

\* Where build_library goes on when search_first_video returned a URL.
AfterMatch == "convert"

\* A plan walked without its last entry.
HasNextAttemptShort(plan, k) == k < Len(plan) - 1

\* Whether search_first_video has search attempts left after the one at
\* position k of its plan.
HasNextAttempt(plan, k) == k < Len(plan)

\* One search request of search_first_video for tracks[i], and what follows
\* from its response.
SearchAttempt ==
    /\ pc = "search"
    /\ \E answer \in SearchResponses :
         LET plan == SearchPlan(search_query(tracks[i]))
             r == AttemptResult(answer)
         IN  /\ calls' = Append(calls, [q |-> plan[attempt].q, hd |-> plan[attempt].hd,
                                        usable |-> Usable(answer)])
             /\ last_resp' = answer
             /\ IF r.raised
                THEN /\ current' = [current EXCEPT !.resolver = "error"]
                     /\ pc' = AfterSearchRaised
                     /\ UNCHANGED <<attempt, yt_url>>
                ELSE IF VideoIdTruthy(r.video_id)
                THEN /\ yt_url' = Some(WatchUrl(r.video_id[1]))
                     /\ current' = [current EXCEPT !.resolver = "match"]
                     /\ pc' = AfterMatch
                     /\ UNCHANGED attempt
                ELSE IF HasNextAttempt(plan, attempt)
                THEN /\ attempt' = attempt + 1
                     /\ UNCHANGED <<pc, yt_url, current>>
                ELSE /\ current' = [current EXCEPT !.resolver = "nomatch"]
                     /\ pc' = AfterNoMatch
                     /\ UNCHANGED <<attempt, yt_url>>
    /\ UNCHANGED <<call, served, config, args, date_added_threshold, song_name_threshold,
                   access_token, pages, tracks, applied, i, files, attempted, returned,
                   faults, error>>

\* A loop that lets the exception of convert_and_download leave build_library.
AfterConvertRaisedPropagates == "failed"

\* Where build_library goes on when convert_and_download raised (lines 96-98).
AfterConvertRaised == "loop"

\* How ydl.download ends: "ok", "error" with nothing written, or "partial"
\* (an error that leaves the output file behind).
DownloadOutcomes == {"ok", "error", "partial"}

\* convert_and_download(yt_url, session_dir, filename_base=filename_base) over
\* the existing files, for one outcome of the download: the path it would
\* return, the file yt-dlp writes, whether it raises, and the files afterwards.
convert_and_download(existing, filename_base, outcome) ==
    [path |-> FinalMp3Path(existing, filename_base),
     written |-> WrittenFile(FinalMp3Path(existing, filename_base)),
     raised |-> outcome # "ok",
     files |-> IF outcome = "error" THEN existing
               ELSE existing \cup {WrittenFile(FinalMp3Path(existing, filename_base))}]

\* What is kept of a successful call: its path, whether the path was free when
\* allocated, the file written, whether that file existed before, and whether
\* the path exists afterwards.
ReturnRecord(existing, r) ==
    [path |-> r.path,
     free |-> r.path \notin existing,
     written |-> r.written,
     overwrote |-> r.written \in existing,
     exists |-> r.path \in r.files]

\* Lines 93-98 of build_library: convert_and_download for tracks[i].
ConvertAndDownload ==
    /\ pc = "convert"
    /\ \E outcome \in DownloadOutcomes :
         /\ files' = convert_and_download(files, BaseName(tracks[i]), outcome).files
         /\ IF convert_and_download(files, BaseName(tracks[i]), outcome).raised
            THEN /\ returned' = returned
                 /\ current' = [current EXCEPT !.converts = @ + 1, !.fetch = "error"]
                 /\ pc' = AfterConvertRaised
            ELSE /\ returned' =
                        Append(returned,
                               ReturnRecord(files,
                                   convert_and_download(files, BaseName(tracks[i]), outcome)))
                 /\ current' = [current EXCEPT !.converts = @ + 1, !.fetch = "ok"]
                 /\ pc' = "loop"
    /\ UNCHANGED <<call, served, config, args, date_added_threshold, song_name_threshold,
                   access_token, pages, tracks, applied, i, attempt, calls, last_resp, yt_url,
                   attempted, faults, error>>

Next ==
    \/ Main
    \/ GetAccessToken
    \/ FetchPage
    \/ FilterTracks
    \/ LoopNext
    \/ SearchAttempt
    \/ ConvertAndDownload

Spec == Init /\ [][Next]_vars

\* ------------------------------------------------------------------ claims
\* The run is inside the for loop of build_library, or past it.
InLoop == pc \in {"loop", "search", "convert", "done"}
\* The run ended before the loop.
Aborted == pc \in {"failed", "usage_error"}
\* The loop is between two tracks, or finished.
BetweenTracks == pc \in {"loop", "done"}

\* An upper bound on the steps the loop has left: seven for each track not
\* yet taken, and what the track in hand can still need.
StepsLeft ==
    7 * (Len(tracks) - i)
    + (CASE pc = "loop" -> 1
         [] pc = "search" -> 7 - attempt
         [] pc = "convert" -> 2
         [] OTHER -> 0)

\* C1: once fetching and filtering have succeeded, the loop takes every track
\* of the filtered sequence exactly once, in order, and then the run is done,
\* whatever the outcome of each track: the tracks taken are always the first
\* ones of the sequence, in order; the run is done only with all of them
\* taken; the loop never leaves for anything but done, is never stuck (its
\* next step can be taken; the download's only guard is its track), and every
\* step brings it closer to done.
C1_EveryTrackOnceThenDone ==
    /\ [](InLoop =>
            /\ i <= Len(tracks)
            /\ attempted = [k \in 1..i |-> k]
            /\ (pc = "done" => i = Len(tracks))
            /\ (pc = "loop" => ENABLED LoopNext)
            /\ (pc = "search" => ENABLED SearchAttempt)
            /\ (pc = "convert" => i \in DOMAIN tracks))
    /\ [][(InLoop /\ pc # "done") => (InLoop' /\ StepsLeft' < StepsLeft)]_vars

\* A finished run over two tracks or more whose last download failed.
C1_Witness ==
    /\ pc = "done"
    /\ Len(attempted) >= 2
    /\ current.fetch = "error"

\* C2: when fetching fails (credentials, authentication, any page) or
\* filtering fails, the run aborts with the error, and no track is processed:
\* no search request and no download is made.
C2_FetchOrFilterFailureAborts ==
    /\ faults # {} => pc = "failed" /\ error # ""
    /\ (faults # {} \/ error # "") =>
          /\ Aborted
          /\ i = 0
          /\ attempted = <<>>
          /\ calls = <<>>
          /\ last_resp = NoResponse
          /\ current.converts = 0
          /\ returned = <<>>
          /\ files = {}

\* A page request that fails after an earlier page delivered tracks.
C2_Witness ==
    /\ pc = "failed"
    /\ "page" \in faults
    /\ pages >= 1
    /\ tracks # <<>>

\* C3: for each track the download is called at most once, and exactly when
\* the search returned a match; no match, a search error and a download
\* error all send the loop on to the next track, and none ends the run.
C3_DownloadIffMatch ==
    /\ current.converts <= 1
    /\ current.converts = 1 => current.resolver = "match"
    /\ (current.resolver = "match" /\ BetweenTracks) => current.converts = 1
    /\ pc = "convert" => current.resolver = "match" /\ current.converts = 0
    /\ current.resolver \in {"nomatch", "error"} =>
          BetweenTracks /\ current.converts = 0 /\ current.fetch = "none"
    /\ current.fetch \in {"ok", "error"} => BetweenTracks /\ current.converts = 1
    /\ pc = "loop" => Len(attempted) = i
    /\ attempted # <<>> => InLoop /\ error = ""

\* The second track's download failed and the loop is ready for a third.
C3_Witness ==
    /\ pc = "loop"
    /\ Len(attempted) = 2
    /\ current.resolver = "match"
    /\ current.fetch = "error"

\* The search plan the specification gives for a query.
ExpectedPlan(query) ==
    << <<query \o Lyrics, TRUE>>, <<query \o Lyrics, FALSE>>,
       <<query, TRUE>>, <<query, FALSE>> >>

\* The requests made so far are the first ones of the expected plan, in order.
CallsFollowPlan ==
    /\ Len(calls) <= 4
    /\ \A k \in DOMAIN calls :
          <<calls[k].q, calls[k].hd>> = ExpectedPlan(search_query(tracks[i]))[k]

\* C4 as stated: the requests follow the plan; the search stops at the first
\* response that holds at least one result and returns it; after four
\* responses without a result it returns None.
C4_StopsAtFirstResult ==
    /\ calls # <<>> => CallsFollowPlan
    /\ (last_resp.status = "ok" /\ last_resp.items # <<>>) =>
          current.resolver = "match" /\ yt_url # NoneVal
    /\ current.resolver = "nomatch" => Len(calls) = 4 /\ yt_url = NoneVal

\* C4 amended: the requests follow the plan; the search stops at the first
\* response whose first result carries a video id, and returns the URL of that
\* video; a response without result or without video id counts as no result,
\* and after four of them the search returns None.
C4_StopsAtFirstVideoId ==
    /\ calls # <<>> => CallsFollowPlan
    /\ \A k \in DOMAIN calls : k < Len(calls) => ~calls[k].usable
    /\ Usable(last_resp) =>
          /\ current.resolver = "match"
          /\ calls[Len(calls)].usable
          /\ yt_url = Some(WatchUrl(last_resp.items[1].videoId[1]))
          /\ pc # "search"
    /\ current.resolver = "match" => Usable(last_resp)
    /\ current.resolver = "nomatch" =>
          /\ Len(calls) = 4
          /\ \A k \in DOMAIN calls : ~calls[k].usable
          /\ last_resp.status = "ok"
          /\ yt_url = NoneVal
    /\ (pc = "search" /\ calls # <<>>) =>
          /\ ~Usable(last_resp)
          /\ last_resp.status = "ok"
          /\ Len(calls) < 4
          /\ attempt = Len(calls) + 1

\* Only the third request (the plain query, HD only) found a video.
C4_Witness ==
    /\ current.resolver = "match"
    /\ Len(calls) = 3
    /\ calls[3].hd
    /\ calls[3].q = search_query(tracks[i])
    /\ pc = "convert"

\* C5: a failure of search request k leaves search_first_video at once, no
\* later request of the plan is made, the track gets no download and the
\* loop goes on.
C5_SearchFailurePropagates ==
    /\ last_resp.status = "error" =>
          /\ current.resolver = "error"
          /\ Len(calls) = attempt
          /\ yt_url = NoneVal
          /\ current.converts = 0
          /\ BetweenTracks
          /\ error = ""
    /\ current.resolver = "error" => last_resp.status = "error"

\* The second request failed, and another track is waiting.
C5_Witness ==
    /\ current.resolver = "error"
    /\ Len(calls) = 2
    /\ pc = "loop"
    /\ i < Len(tracks)

\* C6: a command line that gives both thresholds is rejected as a usage
\* error before anything is fetched, and no run applies both filters.
C6_ThresholdsExclusive ==
    /\ (args.date # NoneVal /\ args.name # NoneVal) =>
          /\ pc = "usage_error"
          /\ pages = 0
          /\ access_token = NoneVal
    /\ ~(date_added_threshold # NoneVal /\ song_name_threshold # NoneVal)
    /\ ~({"time", "title"} \subseteq applied)

\* Both options given, the date well-formed: rejected.
C6_Witness ==
    /\ pc = "usage_error"
    /\ args.date = Some(Timestamp("Z", 1))
    /\ args.name = Some(<<"a">>)

\* The first position whose title equals name, case ignored; 0 for none.
FirstMatch(trks, name) ==
    LET hits == {k \in DOMAIN trks : Lower(trks[k].title) = Lower(name)}
    IN  IF hits = {} THEN 0 ELSE CHOOSE k \in hits : \A j \in hits : k <= j

\* C7: with a title threshold that some track's title equals, case ignored,
\* filtering leaves exactly the tracks after the first such track.
C7_TitleFilterKeepsSuffix ==
    [][(/\ pc = "filtering"
        /\ song_name_threshold # NoneVal
        /\ FirstMatch(tracks, song_name_threshold[1]) # 0)
       => (/\ pc' = "loop"
           /\ tracks' = SubSeq(tracks, FirstMatch(tracks, song_name_threshold[1]) + 1,
                                Len(tracks)))]_vars

\* C8: with a title threshold (any text, the empty one too) that no track's
\* title equals, the run fails with "reference track not found".
C8_AbsentTitleFails ==
    [][(/\ pc = "filtering"
        /\ song_name_threshold # NoneVal
        /\ FirstMatch(tracks, song_name_threshold[1]) = 0)
       => (/\ pc' = "failed"
           /\ error' = "RuntimeError: song not found")]_vars

\* The tracks added strictly after the instant T, in order.
AddedAfter(trks, T) ==
    LET Later(t) == t.added_at.ts > T.ts
    IN  SelectSeq(trks, Later)

\* C9: with a time threshold T, filtering leaves exactly the tracks added
\* strictly after T, tracks whose added_at was defaulted to the epoch included.
C9_TimeFilterKeepsLater ==
    [][(/\ pc = "filtering"
        /\ date_added_threshold # NoneVal)
       => (/\ pc' = "loop"
           /\ tracks' = AddedAfter(tracks, date_added_threshold[1]))]_vars

\* C10: every successful convert_and_download returned a path that was free
\* when allocated, exists afterwards and differs from every path returned
\* before; no file that existed was overwritten.
C10_ReturnedPathsFreshAndPresent ==
    \A k \in DOMAIN returned :
        /\ returned[k].free
        /\ returned[k].exists
        /\ ~returned[k].overwrote
        /\ \A j \in DOMAIN returned : j < k => returned[j].path # returned[k].path

\* ---------------------------------------------------------- utils, called
\* The helpers of utils called on their own, over a directory with files.
MaxNameLen == 3
MaxFiles == 3

\* Base names and extensions handed to unique_path.
BaseNames == {<<>>, <<"A">>, <<"A", "-", "1">>}
Extensions == {<<>>, Mp3Ext}

\* Names a directory may hold when unique_path is called; the empty name is
\* the directory itself.
DirNames ==
    {base \o extension : base \in BaseNames, extension \in Extensions}
    \cup {base \o <<"-">> \o IntToText(n) \o extension :
             base \in BaseNames, extension \in Extensions, n \in 1..2}

\* Characters of the values handed to slugify: a space, a tab, a safe
\* character, an unsafe one and a hyphen.
SlugChars == {" ", "\t", "A", "?", "-"}

\* max_length arguments: a short one and the default.
MaxLengths == {2, SlugMaxLength}

LibInit ==
    /\ pc = "library"
    /\ config = [spotify |-> TRUE, youtube |-> TRUE]
    /\ args = [date |-> NoneVal, name |-> NoneVal]
    /\ date_added_threshold = NoneVal
    /\ song_name_threshold = NoneVal
    /\ access_token = NoneVal
    /\ pages = 0
    /\ tracks = <<>>
    /\ applied = {}
    /\ i = 0
    /\ attempt = 0
    /\ calls = <<>>
    /\ last_resp = NoResponse
    /\ yt_url = NoneVal
    /\ files \in {S \in SUBSET DirNames : Cardinality(S) < MaxFiles}
    /\ attempted = <<>>
    /\ current = LogEntry("none", 0, "none")
    /\ returned = <<>>
    /\ faults = {}
    /\ error = ""
    /\ served = <<>>
    /\ call = NoCall

\* unique_path(directory, base_name, extension) over the files of directory.
UniquePathCall ==
    /\ pc = "library"
    /\ \E base_name \in BaseNames, extension \in Extensions :
         call' = Call("unique_path", base_name, extension, 0,
                      unique_path(files, base_name, extension))
    /\ UNCHANGED <<pc, config, args, date_added_threshold, song_name_threshold,
                   access_token, pages, tracks, applied, i, attempt, calls, last_resp,
                   yt_url, files, attempted, current, returned, faults, error, served>>

\* The caller writes the file it asked a path for.
CreateFile ==
    /\ pc = "library"
    /\ call.fn = "unique_path"
    /\ call.result \notin files
    /\ Cardinality(files) < MaxFiles
    /\ files' = files \cup {call.result}
    /\ UNCHANGED <<pc, config, args, date_added_threshold, song_name_threshold,
                   access_token, pages, tracks, applied, i, attempt, calls, last_resp,
                   yt_url, attempted, current, returned, faults, error, served, call>>

\* slugify(value, max_length=max_length), which looks at no file: called
\* once, before any other helper.
SlugifyCall ==
    /\ pc = "library"
    /\ call = NoCall
    /\ \E value \in SeqsUpTo(SlugChars, MaxNameLen), max_length \in MaxLengths :
         call' = Call("slugify", value, <<>>, max_length, slugify(value, max_length))
    /\ UNCHANGED <<pc, config, args, date_added_threshold, song_name_threshold,
                   access_token, pages, tracks, applied, i, attempt, calls, last_resp,
                   yt_url, files, attempted, current, returned, faults, error, served>>

LibNext ==
    \/ UniquePathCall
    \/ CreateFile
    \/ SlugifyCall

LibSpec == LibInit /\ [][LibNext]_vars

\* The n-th path of the sequence base+ext, base-1+ext, base-2+ext, ...
Candidate(base_name, extension, n) ==
    IF n = 0 THEN base_name \o extension
    ELSE base_name \o <<"-">> \o IntToText(n) \o extension

\* C11: unique_path returns the first path of the sequence base+ext,
\* base-1+ext, base-2+ext, ... that does not exist; the result is fixed by
\* the files that exist, and the call changes no file (the returned path is
\* not created).
C11_FirstFreeCandidate ==
    [][(call' # call /\ call'.fn = "unique_path") =>
          /\ files' = files
          /\ call'.result \notin files'
          /\ \E n \in 0..Cardinality(files) :
                /\ call'.result = Candidate(call'.value, call'.extension, n)
                /\ \A m \in 0..(n - 1) :
                      Candidate(call'.value, call'.extension, m) \in files]_vars

\* Both A.mp3 and A-1.mp3 exist, and unique_path answered A-2.mp3.
C11_Witness ==
    /\ call.fn = "unique_path"
    /\ call.value = <<"A">>
    /\ {<<"A">> \o Mp3Ext, <<"A", "-", "1">> \o Mp3Ext} \subseteq files
    /\ call.result = <<"A", "-", "2">> \o Mp3Ext
    /\ call.result \notin files

\* An entry that cannot be resolved to a playable track: flagged local-only,
\* without identifier, or with a track object that is missing or null.
Droppable(item) ==
    \/ item.track \in {"missing", "null"}
    \/ item.is_local
    \/ item.id = NoneVal

\* The normalized entries of items, in order, without the droppable ones.
ExpectedTracks(items) ==
    LET Kept(item) == ~Droppable(item)
        kept == SelectSeq(items, Kept)
    IN  [k \in DOMAIN kept |-> NormalizeItem(kept[k])]

\* C12: get_playlist_tracks follows the next pointer over all pages and
\* returns the normalized entries of all pages in service order without the
\* droppable ones (local-only, no identifier, track missing or null); a
\* droppable entry never fails the fetch: the fetch fails only when a service
\* answered with a failure.
C12_FetchKeepsAllButDropped ==
    /\ pc \in {"fetching", "filtering"} => tracks = ExpectedTracks(served)
    /\ pc = "filtering" => pages >= 1
    /\ (pc = "failed" /\ served # <<>>) => faults # {}

RECURSIVE CollapseRuns(_)
\* Every run of whitespace of s replaced by one hyphen.
CollapseRuns(s) ==
    IF s = <<>> THEN <<>>
    ELSE IF Head(s) \in Whitespace
    THEN <<"-">> \o CollapseRuns(LStrip(s))
    ELSE <<Head(s)>> \o CollapseRuns(Tail(s))

\* The reference sanitizer: strip, whitespace runs to one hyphen, characters
\* outside letters, digits, ".", "_", "-" removed, truncated.
ReferenceSanitize(value, max_length) ==
    Truncate(KeepSafe(CollapseRuns(Strip(value))), max_length)

\* C13: slugify equals the reference sanitizer for every value (whitespace
\* stripped at both ends, every inner run of whitespace of any kind turned
\* into one hyphen, every other character outside letters, digits, ".", "_",
\* "-" removed, the result cut to the maximum length), and its result holds
\* characters of that set only.
C13_SlugifyIsReference ==
    call.fn = "slugify" =>
        /\ call.result = ReferenceSanitize(call.value, call.max_length)
        /\ \A k \in DOMAIN call.result : call.result[k] \in SafeChars
        /\ Len(call.result) <= call.max_length

====
